---- MODULE Spec2Model ----
(***************************************************************************)
(* A model of tools/scrape/vimorg.py: the vim.org scraper.                 *)
(*                                                                         *)
(*   get_plugin_list   the Listing Fetcher  (a generator)                  *)
(*   get_plugin_info   the Detail Fetcher                                  *)
(*   _clean_text_node  the Fragment Cleaner (in-place lxml tree rewrite)   *)
(*                                                                         *)
(* Python strings are sequences of tokens (a token is a word or a          *)
(* character), so that +=, ==, `in`, int() and re.search are computed and  *)
(* not assumed.  None is a value of its own, different from every string.  *)
(***************************************************************************)
EXTENDS Integers, Sequences, FiniteSets, TLC

\* ------------------------------------------------------------------ bounds
MaxChildren == 3
MaxReleases == 3
MaxItems == 3
MaxNum == 4

\* ------------------------------------------------------- Python values
None == <<"$None">>

\* bool(s) of a str-or-None value: None and "" are false
Truthy(s) == s # None /\ s # <<>>

\* `needle in s` for a one-token needle
Contains(s, needle) == \E k \in 1..Len(s) : s[k] = needle

\* the characters of a str-or-None value
Str(s) == IF s = None THEN <<>> ELSE s

RemoveAt(s, k) == SubSeq(s, 1, k - 1) \o SubSeq(s, k + 1, Len(s))

\* ------------------------------------------------ lxml elements (fragments)
\* An element child of a fragment: its tag, its href attribute (None when the
\* attribute is absent), its .text and .tail (None when there is no text) and
\* the tags of its own element children.  id is the element's identity (its
\* position in the fragment as parsed).
TailTok(i) == <<"t1", "t2", "t3", "t4", "t5">>[i]
NumTok(i) == <<"#1", "#2", "#3", "#4", "#5">>[i]
BoldTok(i) == <<"B1", "B2", "B3", "B4", "B5">>[i]
Href == <<"http://x">>

Elem(i, tag, href, text, hasTail, sub) ==
    [id |-> i, tag |-> tag, href |-> href, text |-> text,
     tail |-> IF hasTail THEN <<TailTok(i)>> ELSE None, sub |-> sub]

ChildrenAt(i) ==
    {Elem(i, "br", None, None, t, <<>>) : t \in BOOLEAN}
    \cup {Elem(i, "a", Href, Href, t, <<>>) : t \in BOOLEAN}
    \cup {Elem(i, "a", Href, <<"vimscript", NumTok(i)>>, TRUE, <<>>),
          Elem(i, "a", Href, <<"vimtip", NumTok(i)>>, TRUE, <<>>),
          Elem(i, "a", Href, <<"see", NumTok(i)>>, FALSE, <<>>),
          Elem(i, "a", Href, None, FALSE, <<"img">>),
          Elem(i, "a", None, <<"anchor">>, FALSE, <<>>)}
    \cup {Elem(i, "b", None, <<BoldTok(i)>>, t, <<"i">>) : t \in BOOLEAN}
    \cup {Elem(i, "b", None, <<BoldTok(i)>>, TRUE, <<>>),
          Elem(i, "b", None, <<BoldTok(i)>>, FALSE, <<"br", "a">>)}

RECURSIVE KidSeqs(_)
KidSeqs(n) ==
    IF n = 0 THEN {<<>>}
    ELSE {Append(s, c) : s \in KidSeqs(n - 1), c \in ChildrenAt(n)}

\* the fragments of up to n children
FragsUpTo(n) ==
    {[text |-> x, kids |-> ks] :
        x \in {None, <<"p">>}, ks \in UNION {KidSeqs(m) : m \in 0..n}}

\* index of the child with identity id among kids (0 when it is not there)
IndexOf(kids, id) ==
    IF \E k \in 1..Len(kids) : kids[k].id = id
    THEN CHOOSE k \in 1..Len(kids) : kids[k].id = id
    ELSE 0

\* lxml's child iterator keeps a reference to the element it will return
\* next: __next__ takes that element, stores its following sibling, and only
\* then returns it.  0 stands for "no element".
FirstChild(kids) == IF Len(kids) = 0 THEN 0 ELSE kids[1].id

NextSibling(kids, id) ==
    LET k == IndexOf(kids, id)
    IN  IF k = 0 \/ k = Len(kids) THEN 0 ELSE kids[k + 1].id

\* bool(element) in lxml is len(element) > 0: "has element children"
ElemBool(e) == Len(e.sub) > 0

Ok(node) == [ok |-> TRUE, node |-> node, err |-> [kind |-> "none"]]
Raise(node, e) == [ok |-> FALSE, node |-> node, err |-> e]
TypeError == [kind |-> "TypeError"]
KeyError == [kind |-> "KeyError"]
WeirdLink(href, text) == [kind |-> "WeirdLink", href |-> href, text |-> text]

\* `if elem.getprevious():` for the element at index k: there is a previous
\* sibling and it is true
HasPrevious(node, k) == k > 1 /\ ElemBool(node.kids[k - 1])

\* "lxml wizardry to remove the tag but keep the text": s is appended to the
\* previous sibling's tail if elem.getprevious() is true, else to the
\* parent's text.  r is the result so far (nothing is done once it raised).
KeepText(r, k, s) ==
    IF ~r.ok THEN r
    ELSE IF HasPrevious(r.node, k)
    THEN IF r.node.kids[k - 1].tail = None
         THEN Raise(r.node, TypeError)
         ELSE Ok([r.node EXCEPT !.kids[k - 1].tail = @ \o s])
    ELSE IF r.node.text = None
         THEN Raise(r.node, TypeError)
         ELSE Ok([r.node EXCEPT !.text = @ \o s])

Remove(r, k) ==
    IF r.ok THEN Ok([r.node EXCEPT !.kids = RemoveAt(@, k)]) ELSE r

KeepTail(r, k, e) == IF Truthy(e.tail) THEN KeepText(r, k, e.tail) ELSE r

\* the body of the loop for the <br> element at index k
CleanBr(node, k) ==
    Remove(KeepTail(Ok(node), k, node.kids[k]), k)

\* variant of the body for <a>: an unrecognized link is dropped like a
\* vimtip link instead of raising
CleanAAlt(node, k) ==
    LET e == node.kids[k]
    IN  IF e.href = None THEN Raise(node, KeyError)
        ELSE IF e.text = None THEN Raise(node, TypeError)
        ELSE IF e.text = e.href \/ Contains(e.text, "vimscript") THEN
            Remove(KeepTail(KeepText(Ok(node), k, e.text), k, e), k)
        ELSE Remove(Ok(node), k)

\* the body of the loop for the <a> element at index k
CleanA(node, k) ==
    LET e == node.kids[k]
    IN  IF e.href = None THEN Raise(node, KeyError)
        ELSE IF e.text = e.href THEN
            Remove(KeepTail(KeepText(Ok(node), k, e.text), k, e), k)
        ELSE IF e.text = None THEN Raise(node, TypeError)
        ELSE IF Contains(e.text, "vimscript") THEN
            Remove(KeepTail(KeepText(Ok(node), k, e.text), k, e), k)
        ELSE IF Contains(e.text, "vimtip") THEN Remove(Ok(node), k)
        ELSE Raise(node, WeirdLink(e.href, e.text))

\* one pass of the loop body for the element with identity id
CleanElem(node, id) ==
    LET k == IndexOf(node.kids, id)
        e == node.kids[k]
    IN  IF e.tag = "br" THEN CleanBr(node, k)
        ELSE IF e.tag = "a" THEN CleanA(node, k)
        ELSE Ok(node)

\* lines 80-81: give the parent a text to append to
EnsureText(node) ==
    IF Len(node.kids) > 0 /\ ~Truthy(node.text)
    THEN [node EXCEPT !.text = <<>>]
    ELSE node

\* the whole loop from the iterator position nxt, as a function
RECURSIVE CleanLoop(_, _)
CleanLoop(node, nxt) ==
    IF nxt = 0 THEN Ok(node)
    ELSE LET after == NextSibling(node.kids, nxt)
             r == CleanElem(node, nxt)
         IN  IF r.ok THEN CleanLoop(r.node, after) ELSE r

clean_text_node(node) ==
    LET n == EnsureText(node) IN CleanLoop(n, FirstChild(n.kids))

\* ------------------------------------------------ numbers, regexes, dates
Missing == <<"$Missing">>     \* an index that is out of range (IndexError)

Digits == {"0", "1", "2", "3", "4", "5", "6", "7", "8", "9"}

DigitVal(c) ==
    CASE c = "0" -> 0 [] c = "1" -> 1 [] c = "2" -> 2 [] c = "3" -> 3
      [] c = "4" -> 4 [] c = "5" -> 5 [] c = "6" -> 6 [] c = "7" -> 7
      [] c = "8" -> 8 [] c = "9" -> 9

AllDigits(s) == Len(s) > 0 /\ \A k \in 1..Len(s) : s[k] \in Digits

RECURSIVE DigitsVal(_)
DigitsVal(s) ==
    IF s = <<>> THEN 0
    ELSE 10 * DigitsVal(SubSeq(s, 1, Len(s) - 1)) + DigitVal(s[Len(s)])

\* the longest run of digits that starts at position k of s (\d+, greedy)
RECURSIVE DigitRun(_, _)
DigitRun(s, k) ==
    IF k <= Len(s) /\ s[k] \in Digits THEN <<s[k]>> \o DigitRun(s, k + 1)
    ELSE <<>>

Val(v) == [ok |-> TRUE, val |-> v, err |-> [kind |-> "none"]]
Err(kind) == [ok |-> FALSE, val |-> 0, err |-> [kind |-> kind]]

\* int(text)
PyInt(s) ==
    IF s = None THEN Err("TypeError")
    ELSE IF s = <<>> THEN Err("ValueError")
    ELSE LET signed == s[1] \in {"-", "+"}
             body == IF signed THEN Tail(s) ELSE s
         IN  IF ~AllDigits(body) THEN Err("ValueError")
             ELSE IF s[1] = "-" THEN Val(0 - DigitsVal(body))
             ELSE Val(DigitsVal(body))

\* seq[i] with Python's indices (0-based, negative from the end)
PyIndex(seq, i) ==
    IF i >= 0
    THEN IF i < Len(seq) THEN seq[i + 1] ELSE Missing
    ELSE IF 0 - i <= Len(seq) THEN seq[Len(seq) + i + 1] ELSE Missing

\* seq[2:-1]
Slice2ToLast(seq) == SubSeq(seq, 3, Len(seq) - 1)

\* int(re.search("(\d+)/(\d+)", text).group(2)): the digits after the first
\* "/" that stands between two digits
RatingDenom(s) ==
    IF s = None THEN Err("TypeError")
    ELSE LET hits == {k \in 2..(Len(s) - 1) :
                        s[k] = "/" /\ s[k - 1] \in Digits /\ s[k + 1] \in Digits}
         IN  IF hits = {} THEN Err("AttributeError")
             ELSE LET k == CHOOSE h \in hits : \A g \in hits : h <= g
                  IN  Val(DigitsVal(DigitRun(s, k + 1)))

\* int(re.search("script_id=(\d+)", link).group(1)); "script_id=" is one token
ScriptId(link) ==
    LET hits == {k \in 1..(Len(link) - 1) :
                    link[k] = "script_id=" /\ link[k + 1] \in Digits}
    IN  IF hits = {} THEN Err("AttributeError")
        ELSE LET k == CHOOSE h \in hits : \A g \in hits : h <= g
             IN  Val(DigitsVal(DigitRun(link, k + 1)))

\* the fields of s between its "-" tokens
RECURSIVE SplitDash(_)
SplitDash(s) ==
    IF \A k \in 1..Len(s) : s[k] # "-" THEN <<s>>
    ELSE LET k == CHOOSE h \in 1..Len(s) :
                      s[h] = "-" /\ \A g \in 1..(h - 1) : s[g] # "-"
         IN  <<SubSeq(s, 1, k - 1)>> \o SplitDash(SubSeq(s, k + 1, Len(s)))

IsLeap(y) == (y % 4 = 0 /\ y % 100 # 0) \/ y % 400 = 0

DaysIn(y, m) ==
    IF m = 2 THEN (IF IsLeap(y) THEN 29 ELSE 28)
    ELSE IF m \in {4, 6, 9, 11} THEN 30 ELSE 31

\* datetime.datetime.strptime(text, "%Y-%m-%d")
strptime(s) ==
    IF s = None THEN Err("TypeError")
    ELSE LET f == SplitDash(s)
         IN  IF /\ Len(f) = 3
                /\ Len(f[1]) = 4 /\ AllDigits(f[1]) /\ DigitsVal(f[1]) >= 1
                /\ Len(f[2]) \in 1..2 /\ AllDigits(f[2])
                /\ DigitsVal(f[2]) \in 1..12
                /\ Len(f[3]) \in 1..2 /\ AllDigits(f[3])
                /\ DigitsVal(f[3]) \in 1..DaysIn(DigitsVal(f[1]), DigitsVal(f[2]))
             THEN Val([y |-> DigitsVal(f[1]), m |-> DigitsVal(f[2]),
                       d |-> DigitsVal(f[3])])
             ELSE Err("ValueError")

LeapsBefore(y) == ((y - 1) \div 4) - ((y - 1) \div 100) + ((y - 1) \div 400)

RECURSIVE DaysBeforeMonth(_, _)
DaysBeforeMonth(y, m) ==
    IF m = 1 THEN 0 ELSE DaysBeforeMonth(y, m - 1) + DaysIn(y, m - 1)

\* util.to_timestamp(date): seconds from the epoch to that day's midnight
to_timestamp(date) ==
    86400 * (365 * (date.y - 1970) + LeapsBefore(date.y) - LeapsBefore(1970)
             + DaysBeforeMonth(date.y, date.m) + (date.d - 1))

\* ------------------------------------------------------- serialisation
OpenTag(tag) ==
    CASE tag = "br" -> "<br>" [] tag = "a" -> "<a>" [] tag = "b" -> "<b>"
      [] tag = "i" -> "<i>" [] tag = "img" -> "<img>" [] OTHER -> "<td>"

CloseTag(tag) ==
    CASE tag = "a" -> "</a>" [] tag = "b" -> "</b>" [] tag = "i" -> "</i>"
      [] OTHER -> "</td>"

Void(tag) == tag \in {"br", "img"}

TagToks ==
    {OpenTag(t) : t \in {"br", "a", "b", "i", "img", "td"}}
    \cup {CloseTag(t) : t \in {"a", "b", "i", "td"}}

RECURSIVE SubToString(_)
SubToString(sub) ==
    IF sub = <<>> THEN <<>>
    ELSE (IF Void(sub[1]) THEN <<OpenTag(sub[1])>>
          ELSE <<OpenTag(sub[1]), CloseTag(sub[1])>>) \o SubToString(Tail(sub))

RECURSIVE KidsToString(_)
KidsToString(kids) ==
    IF kids = <<>> THEN <<>>
    ELSE LET e == kids[1]
         IN  (IF Void(e.tag) THEN <<OpenTag(e.tag)>>
              ELSE <<OpenTag(e.tag)>> \o Str(e.text) \o SubToString(e.sub)
                   \o <<CloseTag(e.tag)>>)
             \o Str(e.tail) \o KidsToString(Tail(kids))

\* lxml.html.tostring(node): the element, its content and its tail
tostring(node) ==
    <<"<td>">> \o Str(node.text) \o KidsToString(node.kids) \o <<"</td>">>
    \o <<"\n">>

\* re.sub(r'[^>]*$', '', s, count=1): cut what follows the last tag
RECURSIVE get_outerhtml_cut(_)
get_outerhtml_cut(s) ==
    IF s = <<>> \/ s[Len(s)] \in TagToks THEN s
    ELSE get_outerhtml_cut(SubSeq(s, 1, Len(s) - 1))

get_outerhtml(node) == get_outerhtml_cut(tostring(node))

get_innerhtml(node) ==
    LET o == get_outerhtml(node)
        a == IF o # <<>> /\ o[1] \in TagToks THEN Tail(o) ELSE o
    IN  IF a # <<>> /\ a[Len(a)] \in TagToks
        THEN SubSeq(a, 1, Len(a) - 1) ELSE a

\* ---------------------------------------------------------- detail pages
\* A parsed detail page, as the three xpath queries of get_plugin_info see
\* it: rating is the list of texts of the <b> elements found in the "Rating"
\* cell; body is body_trs, each row given by its first cell; downloads is
\* download_trs, each row given by its third cell.  A cell has a text and
\* element children, like a fragment.
Cell(text) == [text |-> text, kids |-> <<>>]
CellWith(text) ==
    [text |-> None, kids |-> <<Elem(1, "i", None, text, FALSE, <<>>)>>]

RECURSIVE ToDigits(_)
ToDigits(n) ==
    LET c == <<"0", "1", "2", "3", "4", "5", "6", "7", "8", "9">>[(n % 10) + 1]
    IN  IF n < 10 THEN <<c>> ELSE Append(ToDigits(n \div 10), c)

AuthorOf(id) == <<"author">> \o ToDigits(id)

PlainFrag == [text |-> <<"p">>, kids |-> <<>>]
BrFrag ==
    [text |-> None,
     kids |-> <<Elem(1, "br", None, None, TRUE, <<>>),
                Elem(2, "a", Href, <<"vimscript", "#2">>, TRUE, <<>>)>>]
WeirdFrag ==
    [text |-> <<"p">>,
     kids |-> <<Elem(1, "a", Href, <<"see", "#1">>, FALSE, <<>>)>>]

Body(id, desc, inst) ==
    <<Cell(<<"created by">>), CellWith(AuthorOf(id)),
      Cell(<<"script type">>), Cell(<<"utility">>), Cell(None), Cell(None),
      Cell(<<"description">>), desc, Cell(None),
      Cell(<<"install details">>), inst, Cell(None)>>

GoodBody(id) == Body(id, BrFrag, PlainFrag)

Bodies(id) ==
    {SubSeq(GoodBody(id), 1, n) : n \in {0, 1, 6, 7, 9, 10, 11}}
    \cup {[GoodBody(id) EXCEPT ![n] = Cell(<<"rating">>)] : n \in {1, 2, 7, 10}}
    \cup {Body(id, d, f) : d \in {PlainFrag, BrFrag, WeirdFrag},
                           f \in {PlainFrag, WeirdFrag}}

Chars(d) ==
    CASE d = "2013-04-01" -> <<"2", "0", "1", "3", "-", "0", "4", "-", "0", "1">>
      [] d = "2013-4-1" -> <<"2", "0", "1", "3", "-", "4", "-", "1">>
      [] d = "2012-02-29" -> <<"2", "0", "1", "2", "-", "0", "2", "-", "2", "9">>
      [] d = "2013-02-29" -> <<"2", "0", "1", "3", "-", "0", "2", "-", "2", "9">>
      [] d = "04/01/2013" -> <<"0", "4", "/", "0", "1", "/", "2", "0", "1", "3">>
      [] d = "120/45" -> <<"1", "2", "0", "/", "4", "5">>
      [] d = "n/a" -> <<"n", "/", "a">>

DateTexts ==
    {Chars(d) : d \in {"2013-04-01", "2013-4-1", "2012-02-29", "2013-02-29",
                       "04/01/2013"}} \cup {None}

RECURSIVE ReleaseSeqs(_)
ReleaseSeqs(n) ==
    IF n = 0 THEN {<<>>}
    ELSE {Append(s, CellWith(d)) : s \in ReleaseSeqs(n - 1), d \in DateTexts}

DownloadTables ==
    {<<>>}
    \cup {<<h>> \o r : h \in {Cell(<<"date">>), Cell(<<"version">>)},
                       r \in UNION {ReleaseSeqs(n) : n \in 0..MaxReleases}}

GoodRating == <<Chars("120/45")>>
Ratings == {<<>>, <<None>>, <<Chars("n/a")>>, GoodRating}

GoodDownloads ==
    <<Cell(<<"date">>), CellWith(Chars("2013-04-01")),
      CellWith(Chars("2012-02-29"))>>

Page(r, b, d) == [rating |-> r, body |-> b, downloads |-> d]

GoodPage(id) == Page(GoodRating, GoodBody(id), GoodDownloads)

DetailPages(id) ==
    {Page(r, b, GoodDownloads) : r \in Ratings, b \in Bodies(id)}
    \cup {Page(GoodRating, GoodBody(id), d) : d \in DownloadTables}
    \cup {Page(GoodRating, Body(id, f, PlainFrag), GoodDownloads) :
            f \in FragsUpTo(MaxChildren - 1)}

\* what requests.get gives: it raises (a network error), or it returns the
\* response whatever its status code
NetError == [neterr |-> TRUE]
Response(status, page) == [neterr |-> FALSE, status |-> status, page |-> page]
ErrorPage == Page(<<>>, <<>>, <<>>)

DetailResponses(id) ==
    {NetError, Response(404, ErrorPage)}
    \cup {Response(200, p) : p \in DetailPages(id)}

\* --------------------------------------------------------- get_plugin_info
Fail(kind) == [ok |-> FALSE, err |-> [kind |-> kind]]

\* lines 129-144: the rating, the creator and the two cleaned fragments
ParseHead(page) ==
    LET b == page.body
        denom == RatingDenom(page.rating[1])
        desc == clean_text_node(b[8])
        inst == clean_text_node(b[11])
    IN  IF page.rating = <<>> THEN Fail("IndexError")
        ELSE IF ~denom.ok THEN Fail(denom.err.kind)
        ELSE IF Len(b) < 1 THEN Fail("IndexError")
        ELSE IF b[1].text # <<"created by">> THEN Fail("AssertionError")
        ELSE IF Len(b) < 2 \/ b[2].kids = <<>> THEN Fail("IndexError")
        ELSE IF Len(b) < 7 THEN Fail("IndexError")
        ELSE IF b[7].text # <<"description">> THEN Fail("AssertionError")
        ELSE IF Len(b) < 8 THEN Fail("IndexError")
        ELSE IF ~desc.ok THEN [ok |-> FALSE, err |-> desc.err]
        ELSE IF Len(b) < 10 THEN Fail("IndexError")
        ELSE IF b[10].text # <<"install details">> THEN Fail("AssertionError")
        ELSE IF Len(b) < 11 THEN Fail("IndexError")
        ELSE IF ~inst.ok THEN [ok |-> FALSE, err |-> inst.err]
        ELSE [ok |-> TRUE, err |-> [kind |-> "none"],
              rating_denom |-> denom.val,
              creator |-> b[2].kids[1].text,
              description_node |-> desc.node,
              install_node |-> inst.node]

\* the rows the two dates are read from: download_trs[1], download_trs[-1]
UpdatedRow(t) == PyIndex(t, 1)
\* variant: the created date read from the second row too
CreatedRowAlt(t) == PyIndex(t, 1)
CreatedRow(t) == PyIndex(t, -1)

\* row[2][0].text of a row of download_trs
DateText(row) == row.kids[1].text

\* lines 146-156: the updated and created dates
ParseDates(page) ==
    LET t == page.downloads
        u == UpdatedRow(t)
        c == CreatedRow(t)
        ud == strptime(DateText(u))
        cd == strptime(DateText(c))
    IN  IF Len(t) < 1 THEN Fail("IndexError")
        ELSE IF t[1].text # <<"date">> THEN Fail("AssertionError")
        ELSE IF Len(t) < 2 \/ u.kids = <<>> THEN Fail("IndexError")
        ELSE IF c.kids = <<>> THEN Fail("IndexError")
        ELSE IF ~ud.ok THEN Fail(ud.err.kind)
        ELSE IF ~cd.ok THEN Fail(cd.err.kind)
        ELSE [ok |-> TRUE, err |-> [kind |-> "none"],
              updated_date |-> ud.val, created_date |-> cd.val]

\* lines 158-166: the mapping returned
BuildInfo(head, dates) ==
    [vimorg_num_raters |-> head.rating_denom,
     author |-> head.creator,
     vimorg_long_desc |-> get_innerhtml(head.description_node),
     vimorg_install_details |-> get_innerhtml(head.install_node),
     updated_at |-> to_timestamp(dates.updated_date),
     created_at |-> to_timestamp(dates.created_date)]

NoInfo == [vimorg_num_raters |-> 0]

\* get_plugin_info(script_id), given what requests.get did
get_plugin_info(resp) ==
    IF resp.neterr THEN [ok |-> FALSE, err |-> [kind |-> "ConnectionError"],
                         info |-> NoInfo]
    ELSE LET h == ParseHead(resp.page)
             d == ParseDates(resp.page)
         IN  IF ~h.ok THEN [ok |-> FALSE, err |-> h.err, info |-> NoInfo]
             ELSE IF ~d.ok THEN [ok |-> FALSE, err |-> d.err, info |-> NoInfo]
             ELSE [ok |-> TRUE, err |-> [kind |-> "none"],
                   info |-> BuildInfo(h, d)]

\* --------------------------------------------------------- listing pages
\* A row of the table the xpath query of get_plugin_list finds: link is the
\* list of the first cell's element children (tr[0][0] is its first), the
\* other fields are the texts of the cells read.  The row in position k of a
\* well-formed listing is the script IdOf(k), with rating RatingOf(k) and
\* DownloadsOf(k) downloads.
IdOf(k) == 50 - k
RatingOf(k) == IF k % 2 = 0 THEN 0 - k ELSE 10 + k
DownloadsOf(k) == 200 + k
NameOf(k) == <<"plugin", NumTok(((k - 1) % 5) + 1)>>

IntText(n) == IF n < 0 THEN <<"-">> \o ToDigits(0 - n) ELSE ToDigits(n)

LinkTo(k) == <<"script.php?", "script_id=">> \o ToDigits(IdOf(k))

Anchor(href, text) == [href |-> href, text |-> text]

GoodRow(k) ==
    [link |-> <<Anchor(LinkTo(k), NameOf(k))>>,
     type |-> <<"utility">>,
     rating |-> IntText(RatingOf(k)),
     downloads |-> IntText(DownloadsOf(k)),
     desc |-> <<"short", NumTok(((k - 1) % 5) + 1)>>]

\* a row that is not a script: header cells, no link
PlainRow == [link |-> <<>>, type |-> None, rating |-> None,
             downloads |-> None, desc |-> None]

RowsAt(k) ==
    {GoodRow(k), PlainRow,
     [GoodRow(k) EXCEPT !.link = <<Anchor(<<"script_search_results.php">>,
                                          <<"next">>)>>],
     [GoodRow(k) EXCEPT !.rating = <<"N", "/", "A">>]}

RECURSIVE RowSeqs(_, _)
RowSeqs(from, n) ==
    IF n = 0 THEN {<<>>}
    ELSE {Append(s, r) : s \in RowSeqs(from, n - 1), r \in RowsAt(from + n - 1)}

\* the tables a listing page can hold: fewer than three rows, or two leading
\* rows, the item rows and a last row (which may look like anything)
Tables ==
    {SubSeq(<<PlainRow, PlainRow>>, 1, n) : n \in 0..2}
    \cup {<<PlainRow, PlainRow>> \o items \o <<last>> :
            items \in UNION {RowSeqs(3, n) : n \in 0..MaxItems},
            last \in {PlainRow, GoodRow(9)}}

ListResponses ==
    {NetError} \cup {Response(st, t) : st \in {200, 404}, t \in Tables}

\* the responses to the detail request for script id
ListingDetailResponses(id) ==
    {NetError,
     Response(200, GoodPage(id)),
     Response(200, Page(GoodRating, Body(id, WeirdFrag, PlainFrag),
                        GoodDownloads)),
     Response(200, Page(GoodRating, GoodBody(id), <<Cell(<<"date">>)>>))}

\* --------------------------------------------------------- get_plugin_list
\* scripts[2:-1]: "the first two rows and the last row aren't scripts"
\* variant: scripts[2:], the last row kept
ItemRowsAlt(scripts) == SubSeq(scripts, 3, Len(scripts))
ItemRows(scripts) == Slice2ToLast(scripts)

\* lines 40-43: link, script_id and name of a row
RowHeadOf(tr) ==
    IF tr.link = <<>> THEN Fail("IndexError")
    ELSE IF tr.link[1].href = None THEN Fail("KeyError")
    ELSE LET id == ScriptId(tr.link[1].href)
         IN  IF ~id.ok THEN Fail(id.err.kind)
             ELSE [ok |-> TRUE, err |-> [kind |-> "none"],
                   link |-> tr.link[1].href, script_id |-> id.val,
                   name |-> tr.link[1].text]

\* dict(fields, **plugin_info): the listing's fields and the detail's
\* variant: the detail's fields left out
MergedAlt(fields, info) == fields
Merged(fields, info) == info @@ fields

\* lines 57-66: the merged record, or the exception building it raises
Merge(tr, h, info) ==
    LET rating == PyInt(tr.rating)
        downloads == PyInt(tr.downloads)
    IN  IF ~rating.ok THEN Fail(rating.err.kind)
        ELSE IF ~downloads.ok THEN Fail(downloads.err.kind)
        ELSE [ok |-> TRUE, err |-> [kind |-> "none"],
              rec |-> Merged(
                  [vimorg_url |->
                       <<"http://www.vim.org/scripts/">> \o tr.link[1].href,
                   vim_script_id |-> h.script_id,
                   name |-> tr.link[1].text,
                   vimorg_type |-> tr.type,
                   vimorg_rating |-> rating.val,
                   vimorg_downloads |-> downloads.val,
                   vimorg_short_desc |-> tr.desc],
                  info)]

\* lines 51-54: the except clause logs the failure ...
\* variant: the failure swallowed without a log record
LoggedAlt(log, head) == log
Logged(log, head) ==
    Append(log, [name |-> head.name, script_id |-> head.script_id])

\* ... and `continue` goes on to the next row
\* variant: the failed row tried again
AfterFailureAlt(row) == row
AfterFailure(row) == row + 1

\* ---------------------------------------------------------------- state
VARIABLES
    cin,    \* the fragment _clean_text_node was called with
    cnode,  \* the fragment as it is now
    cnext,  \* the child iterator's stored element
    cpc,    \* "call", "loop", "returned", "raised"
    cerr,   \* the exception raised
    iid,    \* get_plugin_info: script_id
    ipc,    \* "call", "fetched", "head", "dates", "returned", "raised"
    ires,   \* the response of requests.get
    ihead,  \* rating_denom, creator and the two cleaned nodes
    idates, \* updated_date and created_date
    iret,   \* the mapping returned
    ierr,   \* the exception raised
    num,    \* get_plugin_list: the count asked for
    pc,     \* "start", "row", "request", "parse", "merge", "done", "raised"
    status, \* the status code of the listing response (0: none yet)
    scripts,\* the rows the xpath query found
    row,    \* the position in scripts[2:-1] of the row at hand
    head,   \* link, script_id and name of the row at hand
    dres,   \* the response of the detail request of the row at hand
    detail, \* per item row: the requests made for it and what
            \* get_plugin_info did ("none", "ok", "failed") and returned
    records,\* the records yielded so far
    log,    \* the failures logged so far
    listFetches, \* the requests made for the listing page
    err     \* the exception the generator raised

cvars == <<cin, cnode, cnext, cpc, cerr>>
ivars == <<iid, ipc, ires, ihead, idates, iret, ierr>>
lvars == <<num, pc, status, scripts, row, head, dres, detail, records, log,
           listFetches, err>>
vars == <<cin, cnode, cnext, cpc, cerr, iid, ipc, ires, ihead, idates, iret,
          ierr, num, pc, status, scripts, row, head, dres, detail, records,
          log, listFetches, err>>

NoError == [kind |-> "none"]

CleanIdle ==
    /\ cin = PlainFrag /\ cnode = PlainFrag /\ cnext = 0
    /\ cpc = "idle" /\ cerr = NoError

InfoIdle ==
    /\ iid = 0 /\ ipc = "idle" /\ ires = NetError /\ ihead = Fail("none")
    /\ idates = Fail("none") /\ iret = NoInfo /\ ierr = NoError

ListIdle ==
    /\ num = 0 /\ pc = "idle" /\ status = 0 /\ scripts = <<>> /\ row = 0
    /\ head = Fail("none") /\ dres = NetError /\ detail = <<>>
    /\ records = <<>> /\ log = <<>> /\ listFetches = 0 /\ err = NoError

\* ------------------------------------------------- _clean_text_node, stepwise
CleanInit ==
    /\ cin \in FragsUpTo(MaxChildren)
    /\ cnode = cin
    /\ cnext = 0
    /\ cpc = "call"
    /\ cerr = NoError
    /\ InfoIdle
    /\ ListIdle

CleanEnter ==
    /\ cpc = "call"
    /\ cnode' = EnsureText(cnode)
    /\ cnext' = FirstChild(cnode.kids)
    /\ cpc' = "loop"
    /\ UNCHANGED <<cin, cerr>>
    /\ UNCHANGED <<ivars, lvars>>

CleanIter ==
    /\ cpc = "loop"
    /\ cnext # 0
    /\ LET r == CleanElem(cnode, cnext)
       IN  /\ cnext' = NextSibling(cnode.kids, cnext)
           /\ cnode' = r.node
           /\ cerr' = r.err
           /\ cpc' = IF r.ok THEN "loop" ELSE "raised"
    /\ UNCHANGED cin
    /\ UNCHANGED <<ivars, lvars>>

CleanReturn ==
    /\ cpc = "loop"
    /\ cnext = 0
    /\ cpc' = "returned"
    /\ UNCHANGED <<cin, cnode, cnext, cerr>>
    /\ UNCHANGED <<ivars, lvars>>

CleanNext == CleanEnter \/ CleanIter \/ CleanReturn

SpecClean == CleanInit /\ [][CleanNext]_vars

\* --------------------------------------------------- get_plugin_info, stepwise
ScriptIds == {41, 42}

InfoInit ==
    /\ iid \in ScriptIds
    /\ ipc = "call"
    /\ ires = NetError /\ ihead = Fail("none") /\ idates = Fail("none")
    /\ iret = NoInfo /\ ierr = NoError
    /\ CleanIdle
    /\ ListIdle

\* lines 124-127: one request; a network error propagates
InfoFetch ==
    /\ ipc = "call"
    /\ \E r \in DetailResponses(iid) :
        /\ ires' = r
        /\ ipc' = IF r.neterr THEN "raised" ELSE "fetched"
        /\ ierr' = IF r.neterr THEN [kind |-> "ConnectionError"] ELSE ierr
    /\ UNCHANGED <<iid, ihead, idates, iret>>
    /\ UNCHANGED <<cvars, lvars>>

InfoHead ==
    /\ ipc = "fetched"
    /\ LET h == ParseHead(ires.page)
       IN  /\ ihead' = h
           /\ ipc' = IF h.ok THEN "head" ELSE "raised"
           /\ ierr' = h.err
    /\ UNCHANGED <<iid, ires, idates, iret>>
    /\ UNCHANGED <<cvars, lvars>>

InfoDates ==
    /\ ipc = "head"
    /\ LET d == ParseDates(ires.page)
       IN  /\ idates' = d
           /\ ipc' = IF d.ok THEN "dates" ELSE "raised"
           /\ ierr' = d.err
    /\ UNCHANGED <<iid, ires, ihead, iret>>
    /\ UNCHANGED <<cvars, lvars>>

InfoReturn ==
    /\ ipc = "dates"
    /\ iret' = BuildInfo(ihead, idates)
    /\ ipc' = "returned"
    /\ UNCHANGED <<iid, ires, ihead, idates, ierr>>
    /\ UNCHANGED <<cvars, lvars>>

InfoNext == InfoFetch \/ InfoHead \/ InfoDates \/ InfoReturn

SpecInfo == InfoInit /\ [][InfoNext]_vars

\* --------------------------------------------------- get_plugin_list, stepwise
NoDetail == [fetches |-> 0, st |-> "none", info |-> NoInfo]

Init ==
    /\ num \in 1..MaxNum
    /\ pc = "start"
    /\ status = 0 /\ scripts = <<>> /\ row = 0
    /\ head = Fail("none") /\ dres = NetError /\ detail = <<>>
    /\ records = <<>> /\ log = <<>> /\ listFetches = 0 /\ err = NoError
    /\ CleanIdle
    /\ InfoIdle

\* lines 28-36: one request for the listing page; a network error
\* propagates, any response is parsed and queried whatever its status
ListFetch ==
    /\ pc = "start"
    /\ listFetches' = listFetches + 1
    /\ \E r \in ListResponses :
        IF r.neterr
        THEN /\ pc' = "raised"
             /\ err' = [kind |-> "ConnectionError"]
             /\ UNCHANGED <<status, scripts, row, detail>>
        ELSE /\ pc' = "row"
             /\ status' = r.status
             /\ scripts' = r.page
             /\ row' = 1
             /\ detail' = [k \in 1..Len(ItemRows(r.page)) |-> NoDetail]
             /\ UNCHANGED err
    /\ UNCHANGED <<num, head, dres, records, log>>
    /\ UNCHANGED <<cvars, ivars>>

\* line 39, the loop is over: the generator finishes
ListDone ==
    /\ pc = "row"
    /\ row > Len(ItemRows(scripts))
    /\ pc' = "done"
    /\ UNCHANGED <<num, status, scripts, row, head, dres, detail, records,
                   log, listFetches, err>>
    /\ UNCHANGED <<cvars, ivars>>

\* lines 39-43: the next row's link, script_id and name (outside the try)
RowHead ==
    /\ pc = "row"
    /\ row <= Len(ItemRows(scripts))
    /\ LET h == RowHeadOf(ItemRows(scripts)[row])
       IN  /\ head' = h
           /\ pc' = IF h.ok THEN "request" ELSE "raised"
           /\ err' = h.err
    /\ UNCHANGED <<num, status, scripts, row, dres, detail, records, log,
                   listFetches>>
    /\ UNCHANGED <<cvars, ivars>>

\* line 50, get_plugin_info's request (lines 124-125)
DetailRequest ==
    /\ pc = "request"
    /\ \E r \in ListingDetailResponses(head.script_id) : dres' = r
    /\ detail' = [detail EXCEPT ![row].fetches = @ + 1]
    /\ pc' = "parse"
    /\ UNCHANGED <<num, status, scripts, row, head, records, log,
                   listFetches, err>>
    /\ UNCHANGED <<cvars, ivars>>

\* lines 49-54: the rest of get_plugin_info; on any exception the failure is
\* logged and the loop continues
DetailParse ==
    /\ pc = "parse"
    /\ LET r == get_plugin_info(dres)
       IN  IF r.ok
           THEN /\ detail' = [detail EXCEPT ![row].st = "ok",
                                            ![row].info = r.info]
                /\ pc' = "merge"
                /\ UNCHANGED <<row, log>>
           ELSE /\ detail' = [detail EXCEPT ![row].st = "failed"]
                /\ log' = Logged(log, head)
                /\ row' = AfterFailure(row)
                /\ pc' = "row"
    /\ UNCHANGED <<num, status, scripts, head, dres, records, listFetches,
                   err>>
    /\ UNCHANGED <<cvars, ivars>>

\* lines 57-66: the record is built and yielded; an exception building it is
\* outside the try and ends the generator
Yield ==
    /\ pc = "merge"
    /\ LET m == Merge(ItemRows(scripts)[row], head, detail[row].info)
       IN  IF m.ok
           THEN /\ records' = Append(records, m.rec)
                /\ row' = row + 1
                /\ pc' = "row"
                /\ UNCHANGED err
           ELSE /\ pc' = "raised"
                /\ err' = m.err
                /\ UNCHANGED <<records, row>>
    /\ UNCHANGED <<num, status, scripts, head, dres, detail, log,
                   listFetches>>
    /\ UNCHANGED <<cvars, ivars>>

Next == ListFetch \/ ListDone \/ RowHead \/ DetailRequest \/ DetailParse \/ Yield

Spec == Init /\ [][Next]_vars

\* ------------------------------------------------ Fragment Cleaner: claims
Tags(node) == {node.kids[k].tag : k \in 1..Len(node.kids)}
NestedTags(node) ==
    UNION {{node.kids[k].sub[j] : j \in 1..Len(node.kids[k].sub)} :
              k \in 1..Len(node.kids)}

\* an <a> whose text is there, differs from its href and holds neither word
Unrecognized(e) ==
    /\ e.tag = "a" /\ e.href # None /\ e.text # None
    /\ e.text # e.href
    /\ ~Contains(e.text, "vimscript") /\ ~Contains(e.text, "vimtip")

\* a citation-style <a>: replaced by its own text
Citation(e) ==
    /\ e.tag = "a" /\ e.href # None /\ e.text # None
    /\ (e.text = e.href \/ Contains(e.text, "vimscript"))

\* the text the cleaner is to preserve when it removes e
Preserved(e) ==
    IF e.tag = "br" THEN Str(e.tail)
    ELSE IF Citation(e) THEN e.text \o Str(e.tail)
    ELSE <<>>

\* C7: when the Fragment Cleaner returns normally, no <br> and no <a>
\* element remains anywhere in the fragment.
C7_NoBrNoAnchor ==
    cpc = "returned" =>
        {"br", "a"} \cap (Tags(cnode) \cup NestedTags(cnode)) = {}

\* what does hold: no <br> and no <a> remains among the fragment's own
\* children, whatever their arrangement
C7_NoBrNoAnchorChild ==
    cpc = "returned" => {"br", "a"} \cap Tags(cnode) = {}

C7_Witness ==
    /\ cpc = "returned"
    /\ Len(cin.kids) = MaxChildren
    /\ \A k \in 1..Len(cin.kids) : cin.kids[k].tag \in {"br", "a"}

FirstUnrecognized(node) ==
    CHOOSE k \in 1..Len(node.kids) :
        /\ Unrecognized(node.kids[k])
        /\ \A j \in 1..(k - 1) : ~Unrecognized(node.kids[j])

C9_Step ==
    (cpc = "loop" /\ cnext # 0) =>
        LET k == IndexOf(cnode.kids, cnext)
            e == cnode.kids[k]
        IN  Preserved(e) # <<>> =>
                /\ cpc' = "loop"
                /\ IF k > 1
                   THEN /\ cnode'.kids[k - 1].tail =
                              Str(cnode.kids[k - 1].tail) \o Preserved(e)
                        /\ cnode'.text = cnode.text
                   ELSE cnode'.text = cnode.text \o Preserved(e)

\* C9: the text preserved for a removed <br> or citation-style <a> is
\* appended to the trailing text of the preceding sibling when there is one,
\* and to the parent's leading text only when there is none.
C9_AppendedToPrevious == [][C9_Step]_vars

\* ------------------------------------------------- Detail Fetcher: claims
\* the dates the date texts used stand for, worked out by hand
DateOf(text) ==
    CASE text = Chars("2013-04-01") -> [y |-> 2013, m |-> 4, d |-> 1]
      [] text = Chars("2013-4-1") -> [y |-> 2013, m |-> 4, d |-> 1]
      [] text = Chars("2012-02-29") -> [y |-> 2012, m |-> 2, d |-> 29]
      [] OTHER -> [y |-> 0, m |-> 0, d |-> 0]

\* the timestamp of the date a text stands for (-1: it stands for none)
Stamp(text) ==
    IF DateOf(text).y = 0 THEN -1 ELSE to_timestamp(DateOf(text))

\* C10: with a release-notes table of a header row and R release rows,
\* updated_at is the timestamp of release row 1 and created_at that of
\* release row R (equal when R = 1); with R = 0 the fetch fails: no mapping
\* is returned and no date is read from the header row.
C10_UpdatedCreated ==
    ipc \in {"head", "dates", "returned", "raised"} =>
        LET t == ires.page.downloads
            R == Len(t) - 1
        IN  /\ ipc \in {"dates", "returned"} => R >= 1
            /\ ipc = "returned" =>
                  /\ iret.updated_at = Stamp(DateText(t[2]))
                  /\ iret.created_at = Stamp(DateText(t[R + 1]))
                  /\ iret.updated_at > 0 /\ iret.created_at > 0
                  /\ R = 1 => iret.updated_at = iret.created_at
            /\ (ipc = "raised" /\ ihead.ok /\ R = 0) =>
                  /\ ierr.kind \in {"IndexError", "AssertionError"}
                  /\ iret = NoInfo

C10_Witness ==
    /\ ipc = "returned"
    /\ Len(ires.page.downloads) = MaxReleases + 1
    /\ iret.updated_at # iret.created_at

\* ------------------------------------------------ Listing Fetcher: claims
Items == ItemRows(scripts)
K == Len(Items)

\* a row whose own fields can all be extracted
WellFormed(tr) ==
    RowHeadOf(tr).ok /\ PyInt(tr.rating).ok /\ PyInt(tr.downloads).ok

Failed == {j \in 1..K : detail[j].st = "failed"}

\* the script ids of the rows 1..j whose detail fetch ended in st, in order
RECURSIVE IdsWhere(_, _)
IdsWhere(st, j) ==
    IF j = 0 THEN <<>>
    ELSE IF detail[j].st = st THEN Append(IdsWhere(st, j - 1), IdOf(j + 2))
    ELSE IdsWhere(st, j - 1)

RecordIds == [n \in 1..Len(records) |-> records[n].vim_script_id]
LogIds == [n \in 1..Len(log) |-> log[n].script_id]

RecordKeys ==
    {"vimorg_url", "vim_script_id", "name", "vimorg_type", "vimorg_rating",
     "vimorg_downloads", "vimorg_short_desc", "vimorg_num_raters", "author",
     "vimorg_long_desc", "vimorg_install_details", "updated_at", "created_at"}

\* C1: an error raised while handling one row (extracting its link,
\* identifier or integer fields, or fetching its detail) never aborts the
\* batch: the generator raises only when the listing request itself fails.
C1_RowErrorNeverAborts ==
    pc = "raised" => (scripts = <<>> /\ row = 0)

\* C2: with K well-formed rows of which the rows F fail in the detail
\* fetch, the finished batch has emitted exactly K - |F| records, in the
\* order of the remaining rows, and logged exactly |F| failures, one per
\* failed row.
C2_ExactlyKMinusF ==
    (pc = "done" /\ \A j \in 1..K : WellFormed(Items[j])) =>
        /\ Len(records) = K - Cardinality(Failed)
        /\ RecordIds = IdsWhere("ok", K)
        /\ Len(log) = Cardinality(Failed)
        /\ LogIds = IdsWhere("failed", K)

C2_Witness ==
    /\ pc = "done"
    /\ K = MaxItems
    /\ \A j \in 1..K : WellFormed(Items[j])
    /\ Failed = {2}
    /\ Len(records) = K - 1

\* C3: every record emitted so far has the identifier of exactly one row of
\* the listing, holds that row's listing fields and the six fields the
\* detail fetch of that row returned; a row whose detail fetch failed has no
\* record at all.
C3_RecordsMatchRows ==
    /\ \A n \in 1..Len(records) :
        LET r == records[n]
            rows == {j \in 1..K : /\ RowHeadOf(Items[j]).ok
                                  /\ RowHeadOf(Items[j]).script_id
                                       = r.vim_script_id}
        IN  /\ DOMAIN r = RecordKeys
            /\ Cardinality(rows) = 1
            /\ LET j == CHOOSE x \in rows : TRUE
                   k == j + 2
               IN  /\ r.vim_script_id = IdOf(k)
                   /\ r.vimorg_url =
                        <<"http://www.vim.org/scripts/">> \o LinkTo(k)
                   /\ r.name = NameOf(k)
                   /\ r.vimorg_type = <<"utility">>
                   /\ r.vimorg_rating = RatingOf(k)
                   /\ r.vimorg_downloads = DownloadsOf(k)
                   /\ r.vimorg_short_desc = GoodRow(k).desc
                   /\ detail[j].st = "ok"
                   /\ r.vimorg_num_raters = detail[j].info.vimorg_num_raters
                   /\ r.author = detail[j].info.author
                   /\ r.vimorg_long_desc = detail[j].info.vimorg_long_desc
                   /\ r.vimorg_install_details
                        = detail[j].info.vimorg_install_details
                   /\ r.updated_at = detail[j].info.updated_at
                   /\ r.created_at = detail[j].info.created_at
                   /\ r.vimorg_num_raters = 45
                   /\ r.author = AuthorOf(IdOf(k))
                   /\ r.updated_at = Stamp(Chars("2013-04-01"))
                   /\ r.created_at = Stamp(Chars("2012-02-29"))
    /\ \A j \in Failed :
        \A n \in 1..Len(records) : records[n].vim_script_id # IdOf(j + 2)

C3_Witness ==
    /\ Len(records) = 2
    /\ records[1].vimorg_rating < 0
    /\ Failed # {}

\* C4: when retrieval of the listing page fails, a non-success status
\* included, the batch ends in an error and emits no record.
C4_FailedListingIsFatal ==
    (pc # "start" /\ status # 200) => (pc = "raised" /\ records = <<>>)

\* C5 (as claimed): never more than N - 3 records for a requested count N;
\* stated where it is most likely to hold: N is at least 3 and the page
\* holds no more than N item rows.
C5_AtMostNumMinus3 ==
    (num >= 3 /\ K <= num) => Len(records) <= num - 3

\* C5 (amended): never more records than the located table has rows beyond
\* its first two and its last, whatever N is.
C5_AtMostRowsMinus3 ==
    Len(records) <= (IF Len(scripts) > 3 THEN Len(scripts) - 3 ELSE 0)

C5_Witness ==
    /\ Len(records) = MaxItems
    /\ Len(scripts) = MaxItems + 3
    /\ num = 1

\* C6: the listing page is requested once; each row's detail page is
\* requested at most once and exactly once for every row dealt with; the
\* detail fetch of a row has returned or failed before the next row is
\* touched.
C6_SequentialOnce ==
    /\ listFetches <= 1
    /\ pc # "start" => listFetches = 1
    /\ \A j \in DOMAIN detail :
        /\ detail[j].fetches <= 1
        /\ j < row => (detail[j].fetches = 1 /\ detail[j].st \in {"ok", "failed"})
        /\ j > row => (detail[j].fetches = 0 /\ detail[j].st = "none")
        /\ j = row =>
              /\ detail[j].st # "failed"
              /\ detail[j].fetches = 1 <=>
                    (pc \in {"parse", "merge"} \/ detail[j].st = "ok")

C6_Witness ==
    /\ pc = "done"
    /\ K = MaxItems
    /\ Failed # {}
    /\ records # <<>>

====
